---- MODULE Spec2Model ----
(***************************************************************************)
(* Snowflake id generator (src/golang/snowflake.go): the generator struct, *)
(* NewInstance, NextId with getNextMill, and the four Parse functions,     *)
(* called by concurrent goroutines. Every read of the wall clock may       *)
(* return any of the readings considered: the clock may stand still, move  *)
(* on or be set back between any two reads.                                *)
(*                                                                         *)
(* An int64 is modelled as the set of its one-bits (bit 63 is the sign),   *)
(* so shifts, masks and two's-complement addition are exact modulo 2^64.   *)
(***************************************************************************)
EXTENDS Integers, FiniteSets, Sequences, TLC

\* ------------------------------------------------------------ bounds
NumProcs == 2      \* goroutines calling NextId on the one generator
MaxCalls == 2      \* NextId calls started in one behaviour
MaxTick == 1       \* in-range clock readings are start_timestamp + 0..MaxTick
PriorSlack == 1    \* the generator starts fresh, or already holds one of the
                   \* last PriorSlack + 1 sequence numbers of a millisecond

\* ------------------------------------------------------------ int64
WordBits == 64
Bits == 0..(WordBits - 1)
SignBit == WordBits - 1

RECURSIVE Pow2(_)
Pow2(n) == IF n = 0 THEN 1 ELSE 2 * Pow2(n - 1)

\* The int64 of a natural below 2^31.
Nat2W(n) == {i \in 0..30 : (n \div Pow2(i)) % 2 = 1}

Zero == {}
One == {0}

Not(a) == Bits \ a
And(a, b) == a \cap b
Or(a, b) == a \cup b
Xor(a, b) == (a \cup b) \ (a \cap b)
\* a << k: the bits shifted out at the top are lost.
Shl(a, k) == {i + k : i \in a} \cap Bits
\* a >> k on a signed integer: the sign bit fills the top.
Sar(a, k) ==
  ({i - k : i \in a} \cap Bits)
    \cup (IF SignBit \in a THEN (WordBits - k)..SignBit ELSE {})

\* Two's-complement addition modulo 2^64, computed on four 16-bit limbs.
\* The number whose bits are the n bits of a from bit lo on.
RECURSIVE Val(_, _, _)
Val(a, lo, n) ==
  IF n = 0 THEN 0 ELSE (IF lo \in a THEN 1 ELSE 0) + 2 * Val(a, lo + 1, n - 1)
Limbs(a) == [k \in 0..3 |-> Val(a, 16 * k, 16)]
\* The limbs of x + y + c0, the carry out of the top limb dropped.
LimbSums(x, y, c0) ==
  LET s0 == x[0] + y[0] + c0
      s1 == x[1] + y[1] + (s0 \div 65536)
      s2 == x[2] + y[2] + (s1 \div 65536)
      s3 == x[3] + y[3] + (s2 \div 65536)
  IN  [k \in 0..3 |-> (CASE k = 0 -> s0 [] k = 1 -> s1 [] k = 2 -> s2 [] k = 3 -> s3) % 65536]
\* The bits of limb k when its value is v.
LimbBits(k, v) == {16 * k + j : j \in {i \in 0..15 : (v \div Pow2(i)) % 2 = 1}}
FromLimbs(s) == UNION {LimbBits(kv[1], kv[2]) : kv \in {<<k, s[k]>> : k \in 0..3}}
AddC(a, b, c0) == FromLimbs(LimbSums(Limbs(a), Limbs(b), c0))
Add(a, b) == AddC(a, b, 0)
Sub(a, b) == AddC(a, Not(b), 1)

\* Signed comparison: the highest bit in which a and b differ decides.
TopBit(d) == CHOOSE i \in d : \A j \in d : j <= i
Lt(a, b) ==
  IF a = b THEN FALSE
  ELSE IF TopBit(Xor(a, b)) = SignBit THEN SignBit \in a
  ELSE TopBit(Xor(a, b)) \in b
Gt(a, b) == Lt(b, a)
Le(a, b) == ~Lt(b, a)

\* The int64 of an integer of magnitude below 2^31.
IntW(n) == IF n >= 0 THEN Nat2W(n) ELSE Sub(Zero, Nat2W(0 - n))

\* The int64 written as a decimal literal, most significant digit first:
\* acc is the value of the digits before the i-th.
Times10(a) == Add(Shl(a, 3), Shl(a, 1))
RECURSIVE DecFrom(_, _, _)
DecFrom(acc, d, i) ==
  IF i > Len(d) THEN acc
  ELSE IF acc = Zero THEN DecFrom(Nat2W(d[i]), d, i + 1)
  ELSE DecFrom(Add(Times10(acc), Nat2W(d[i])), d, i + 1)
Dec(d) == DecFrom(Zero, d, 1)

\* ------------------------------------------------------------ constants
start_timestamp == Dec(<<1, 4, 8, 0, 1, 6, 6, 4, 6, 5, 6, 3, 1>>)

sequence_bit == 12
machine_bit == 6
data_center_bit == 4
timestamp_bit == 41
sign_bit == 1

negativeOne == IntW(-1)
max_sequence == Xor(negativeOne, Shl(negativeOne, sequence_bit))
max_machine_num == Xor(negativeOne, Shl(negativeOne, machine_bit))
max_data_center_num == Xor(negativeOne, Shl(negativeOne, data_center_bit))
max_timestamp_num == Xor(negativeOne, Shl(negativeOne, timestamp_bit))

machine_left == sequence_bit
\* A data-centre shift that leaves out the machine field's width.
data_center_left_narrow == sequence_bit
data_center_left == sequence_bit + machine_bit
timestamp_left == data_center_left + data_center_bit

\* The constants of src/java/SnowflakeId.java.
SEQUENCE_BIT == 12
MACHINE_BIT == 5
DATA_CENTER_BIT == 5
TIMESTAMP_BIT == 41
SIGN_BIT == 1

MAX_SEQUENCE == Xor(negativeOne, Shl(negativeOne, SEQUENCE_BIT))
MAX_MACHINE_NUM == Xor(negativeOne, Shl(negativeOne, MACHINE_BIT))
MAX_DATA_CENTER_NUM == Xor(negativeOne, Shl(negativeOne, DATA_CENTER_BIT))
MAX_TIMESTAMP_NUM == Xor(negativeOne, Shl(negativeOne, TIMESTAMP_BIT))

MACHINE_LEFT == SEQUENCE_BIT
DATA_CENTER_LEFT == SEQUENCE_BIT + MACHINE_BIT
TIMESTAMP_LEFT == DATA_CENTER_LEFT + DATA_CENTER_BIT

\* ------------------------------------------------------------ generator
\* errors.New(...) values; NoErr is Go's nil error.
NoErr == "nil"
ErrDataCenter == "DtaCenterId can't be greater than MAX_DATA_CENTER_NUM or less than 0"
ErrMachine == "MachineId can't be greater than MAX_MACHINE_NUM or less than 0"
ErrClock == "Clock moved backwards.  Refusing to generate id"

\* A NewInstance whose upper tests are >= : it refuses the greatest valid ids.
NewInstanceExclusive(dataCenterId, machineId) ==
  LET sf == [DataCenterId |-> Zero, MachineId |-> Zero,
             Sequence |-> Zero, LastTimeStamp |-> negativeOne]
  IN  IF ~Lt(dataCenterId, max_data_center_num) \/ Lt(dataCenterId, Zero)
        THEN [sf |-> sf, err |-> ErrDataCenter]
      ELSE IF ~Lt(machineId, max_machine_num) \/ Lt(machineId, Zero)
        THEN [sf |-> sf, err |-> ErrMachine]
      ELSE [sf |-> [sf EXCEPT !.DataCenterId = dataCenterId, !.MachineId = machineId],
            err |-> NoErr]

\* NewInstance: the struct it returns and its error. On an error the
\* identity fields keep Go's zero value.
NewInstance(dataCenterId, machineId) ==
  LET sf == [DataCenterId |-> Zero, MachineId |-> Zero,
             Sequence |-> Zero, LastTimeStamp |-> negativeOne]
  IN  IF Gt(dataCenterId, max_data_center_num) \/ Lt(dataCenterId, Zero)
        THEN [sf |-> sf, err |-> ErrDataCenter]
      ELSE IF Gt(machineId, max_machine_num) \/ Lt(machineId, Zero)
        THEN [sf |-> sf, err |-> ErrMachine]
      ELSE [sf |-> [sf EXCEPT !.DataCenterId = dataCenterId, !.MachineId = machineId],
            err |-> NoErr]

\* A test that also refuses a clock equal to the last timestamp used.
ClockNotAhead(currTimeStamp, lastTimeStamp) == Le(currTimeStamp, lastTimeStamp)

\* NextId, line 117: the clock read is behind the last timestamp used.
ClockBackwards(currTimeStamp, lastTimeStamp) == Lt(currTimeStamp, lastTimeStamp)

\* A sequence step without the mask.
NextSequenceUnmasked(sequence) == Add(sequence, One)

\* A sequence step of two.
NextSequenceByTwo(sequence) == And(Add(sequence, Nat2W(2)), max_sequence)

\* NextId, line 123: the next sequence number of the same millisecond.
NextSequence(sequence) == And(Add(sequence, One), max_sequence)

\* An id whose machine id is not shifted to its field.
ComposeMachineUnshifted(currTimeStamp, dataCenterId, machineId, sequence) ==
  Or(Or(Or(Shl(Sub(currTimeStamp, start_timestamp), timestamp_left),
           Shl(dataCenterId, data_center_left)),
        machineId),
     sequence)

\* NextId, line 136: the id of a timestamp, an identity and a sequence number.
Compose(currTimeStamp, dataCenterId, machineId, sequence) ==
  Or(Or(Or(Shl(Sub(currTimeStamp, start_timestamp), timestamp_left),
           Shl(dataCenterId, data_center_left)),
        Shl(machineId, machine_left)),
     sequence)

\* An Enter that clears Sequence before it refuses a clock that went back.
EnterResetOnError(sf, currTimeStamp) ==
  IF Lt(currTimeStamp, sf.LastTimeStamp)
    THEN [sf |-> [sf EXCEPT !.Sequence = Zero], to |-> "err"]
  ELSE IF currTimeStamp = sf.LastTimeStamp
    THEN [sf |-> [sf EXCEPT !.Sequence = And(Add(sf.Sequence, One), max_sequence)],
          to |-> IF And(Add(sf.Sequence, One), max_sequence) = Zero
                   THEN "nextmill" ELSE "finish"]
  ELSE [sf |-> [sf EXCEPT !.Sequence = Zero], to |-> "finish"]

\* An Enter that keeps Sequence when the millisecond is new.
EnterNoReset(sf, currTimeStamp) ==
  IF Lt(currTimeStamp, sf.LastTimeStamp)
    THEN [sf |-> sf, to |-> "err"]
  ELSE IF currTimeStamp = sf.LastTimeStamp
    THEN [sf |-> [sf EXCEPT !.Sequence = And(Add(sf.Sequence, One), max_sequence)],
          to |-> IF And(Add(sf.Sequence, One), max_sequence) = Zero
                   THEN "nextmill" ELSE "finish"]
  ELSE [sf |-> sf, to |-> "finish"]

\* NextId, lines 117-131, on the clock value read at line 115: the struct
\* with its new Sequence and where the call goes next.
Enter(sf, currTimeStamp) ==
  IF ClockBackwards(currTimeStamp, sf.LastTimeStamp)
    THEN [sf |-> sf, to |-> "err"]
  ELSE IF currTimeStamp = sf.LastTimeStamp
    THEN [sf |-> [sf EXCEPT !.Sequence = NextSequence(sf.Sequence)],
          to |-> IF NextSequence(sf.Sequence) = Zero THEN "nextmill" ELSE "finish"]
  ELSE [sf |-> [sf EXCEPT !.Sequence = Zero], to |-> "finish"]

\* A Finish that also clears MachineId.
FinishClearsMachine(sf, currTimeStamp) ==
  [sf |-> [sf EXCEPT !.LastTimeStamp = currTimeStamp, !.MachineId = Zero],
   id |-> Compose(currTimeStamp, sf.DataCenterId, sf.MachineId, sf.Sequence)]

\* NextId, lines 133-138: the struct with its new LastTimeStamp, and the id.
Finish(sf, currTimeStamp) ==
  [sf |-> [sf EXCEPT !.LastTimeStamp = currTimeStamp],
   id |-> Compose(currTimeStamp, sf.DataCenterId, sf.MachineId, sf.Sequence)]

\* getNextMill, line 72: the loop's test on the value read so far.
NotAfter(mill, lastTimeStamp) == Le(mill, lastTimeStamp)

\* A Lock that never waits.
CanLockAlways(holder) == TRUE

\* p.lock.Lock() returns only when no call holds the mutex (0: unlocked).
CanLock(holder) == holder = 0

\* An Unlock that is skipped on the error return.
UnlockedOnSuccess(holder, err) == IF err = NoErr THEN 0 ELSE holder

\* defer p.lock.Unlock(): the mutex after a return with error err.
Unlocked(holder, err) == 0

\* ------------------------------------------------------------ decoding
ParseDataCenter(id) ==
  Sar(And(id, Shl(max_data_center_num, data_center_left)), data_center_left)
ParseMachineId(id) ==
  Sar(And(id, Shl(max_machine_num, machine_left)), machine_left)
ParseDateTime(id) ==
  Sar(And(id, Shl(max_timestamp_num, timestamp_left)), timestamp_left)
ParseSequence(id) == And(id, max_sequence)

\* ------------------------------------------------------------ state
Procs == 1..NumProcs

VARIABLES
  args,     \* the arguments NewInstance was called with
  made,     \* what NewInstance returned: [sf, err]
  sf,       \* the generator struct: DataCenterId, MachineId, Sequence, LastTimeStamp
  lock,     \* sf.lock: 0, or the goroutine holding it
  pc,       \* per goroutine: where it is in NextId
  mill,     \* per goroutine: getNextMill's local
  call,     \* per goroutine: the record of its call in progress
  view,     \* per goroutine inside the critical section: sf as it last read or wrote it
  calls,    \* NextId calls started so far
  lastRet,  \* the record of the call that returned last
  lastOk,   \* the record of the last call that returned an id
  prevOk,   \* the record of the call that returned an id before lastOk
  seen      \* ids returned so far (of the calls before the initial state, the
            \* first and the last one)

vars == <<args, made, sf, lock, pc, mill, call, view, calls,
          lastRet, lastOk, prevOk, seen>>

\* The record of a call: the goroutine, the clock value read at line 115,
\* Sequence and LastTimeStamp when the lock was taken and when the call
\* returned, the values returned, whether getNextMill ran, and the parity of
\* the number of times its loop body ran without leaving the loop.
NoCall == [proc |-> 0, first |-> Zero, seq0 |-> Zero, lts0 |-> Zero,
           seq1 |-> Zero, lts1 |-> Zero, id |-> Zero, err |-> NoErr,
           spun |-> FALSE, iter |-> 0]

InCS == {"read", "nextmill", "spin", "ret"}

\* ------------------------------------------------------------ clock
\* What getNewTimeStamp may return, time.Now() in milliseconds: the epoch and the MaxTick
\* milliseconds after it, one millisecond before the epoch, and the first
\* millisecond whose offset no longer fits timestamp_bit bits.
ClockValues ==
  {Add(start_timestamp, Nat2W(k)) : k \in 0..MaxTick}
    \cup {Sub(start_timestamp, One), Add(start_timestamp, Shl(One, timestamp_bit))}

\* ------------------------------------------------------------ initial states
\* NewInstance arguments: each bound from outside, the least int64, both
\* arguments invalid, and the least and the greatest valid pair.
ArgPairs ==
  { <<IntW(-1), Zero>>, <<Nat2W(Pow2(data_center_bit)), Zero>>,
    <<Zero, IntW(-1)>>, <<Zero, Nat2W(Pow2(machine_bit))>>,
    <<Shl(One, SignBit), Zero>>, <<IntW(-1), IntW(-1)>>,
    <<Zero, Zero>>,
    <<Nat2W(Pow2(data_center_bit) - 1), Nat2W(Pow2(machine_bit) - 1)>> }

\* The millisecond in which the calls before the initial state were served.
PriorClock == start_timestamp

\* How many such calls there were: none, or as many as leave Sequence at
\* one of its last PriorSlack + 1 values.
PriorCalls == {0} \cup ((Pow2(sequence_bit) - PriorSlack)..Pow2(sequence_bit))

\* The struct after n calls served in PriorClock, starting from sf0.
After(sf0, n) ==
  IF n = 0 THEN sf0
  ELSE [sf0 EXCEPT !.Sequence = Nat2W(n - 1), !.LastTimeStamp = PriorClock]

\* The n-th of these calls (n >= 1), as NextId runs it.
PriorStep(sf0, n) == Finish(Enter(After(sf0, n - 1), PriorClock).sf, PriorClock)
PriorCall(sf0, n) ==
  [proc |-> 1, first |-> PriorClock,
   seq0 |-> After(sf0, n - 1).Sequence, lts0 |-> After(sf0, n - 1).LastTimeStamp,
   seq1 |-> PriorStep(sf0, n).sf.Sequence, lts1 |-> PriorStep(sf0, n).sf.LastTimeStamp,
   id |-> PriorStep(sf0, n).id, err |-> NoErr, spun |-> FALSE, iter |-> 0]

Init ==
  /\ args \in ArgPairs
  /\ made = NewInstance(args[1], args[2])
  /\ \E n \in PriorCalls :
       /\ made.err # NoErr => n = 0
       /\ sf = IF n = 0 THEN made.sf ELSE PriorStep(made.sf, n).sf
       /\ lastOk = IF n = 0 THEN NoCall ELSE PriorCall(made.sf, n)
       /\ prevOk = IF n < 2 THEN NoCall ELSE PriorCall(made.sf, n - 1)
       /\ seen = IF n = 0 THEN {} ELSE {PriorCall(made.sf, 1).id, PriorCall(made.sf, n).id}
  /\ lastRet = lastOk
  /\ lock = 0
  /\ pc = [p \in Procs |-> "idle"]
  /\ mill = [p \in Procs |-> Zero]
  /\ call = [p \in Procs |-> NoCall]
  /\ view = [p \in Procs |-> made.sf]
  /\ calls = 0

\* ------------------------------------------------------------ NextId
\* A goroutine calls NextId on the generator NewInstance returned.
Call(p) ==
  /\ pc[p] = "idle"
  /\ made.err = NoErr
  /\ calls < MaxCalls
  /\ calls' = calls + 1
  /\ pc' = [pc EXCEPT ![p] = "lock"]
  /\ UNCHANGED <<args, made, sf, lock, mill, call, view, lastRet, lastOk, prevOk, seen>>

\* Line 112: p.lock.Lock().
Lock(p) ==
  /\ pc[p] = "lock"
  /\ CanLock(lock)
  /\ lock' = p
  /\ pc' = [pc EXCEPT ![p] = "read"]
  /\ call' = [call EXCEPT ![p] = [NoCall EXCEPT !.proc = p, !.seq0 = sf.Sequence,
                                                !.lts0 = sf.LastTimeStamp]]
  /\ view' = [view EXCEPT ![p] = sf]
  /\ UNCHANGED <<args, made, sf, mill, calls, lastRet, lastOk, prevOk, seen>>

\* The call's return values are set (lines 118 and 138): it is at its return.
AtReturn(p, c, newSf, id, err) ==
  /\ sf' = newSf
  /\ view' = [view EXCEPT ![p] = newSf]
  /\ pc' = [pc EXCEPT ![p] = "ret"]
  /\ call' = [call EXCEPT ![p] = [c EXCEPT !.seq1 = newSf.Sequence,
                                          !.lts1 = newSf.LastTimeStamp,
                                          !.id = id, !.err = err]]

\* Lines 115-138 up to the next clock read: the clock is read, compared with
\* LastTimeStamp and Sequence is set; then either the call fails, or enters
\* getNextMill, or sets LastTimeStamp and composes its id.
ReadClock(p) ==
  /\ pc[p] = "read"
  /\ \E t \in ClockValues :
       LET c == [call[p] EXCEPT !.first = t]
           e == Enter(sf, t)
       IN  CASE e.to = "err" -> AtReturn(p, c, e.sf, Zero, ErrClock)
             [] e.to = "nextmill" ->
                  /\ sf' = e.sf
                  /\ view' = [view EXCEPT ![p] = e.sf]
                  /\ pc' = [pc EXCEPT ![p] = "nextmill"]
                  /\ call' = [call EXCEPT ![p] = [c EXCEPT !.spun = TRUE]]
             [] e.to = "finish" ->
                  AtReturn(p, c, Finish(e.sf, t).sf, Finish(e.sf, t).id, NoErr)
  /\ UNCHANGED <<args, made, lock, mill, calls, lastRet, lastOk, prevOk, seen>>

\* getNextMill, line 70: mill := p.getNewTimeStamp().
NextMillRead(p) ==
  /\ pc[p] = "nextmill"
  /\ \E t \in ClockValues : mill' = [mill EXCEPT ![p] = t]
  /\ pc' = [pc EXCEPT ![p] = "spin"]
  /\ UNCHANGED <<args, made, sf, lock, call, view, calls, lastRet, lastOk, prevOk, seen>>

\* getNextMill, lines 72-77, then NextId, lines 126 and 133-138: the test
\* holds, so the clock is read once more, the loop is left and that reading
\* is returned, whatever it is; NextId uses it as its timestamp.
SpinBreak(p) ==
  /\ pc[p] = "spin"
  /\ NotAfter(mill[p], sf.LastTimeStamp)
  /\ \E t \in ClockValues :
       /\ mill' = [mill EXCEPT ![p] = t]
       /\ AtReturn(p, call[p], Finish(sf, t).sf, Finish(sf, t).id, NoErr)
  /\ UNCHANGED <<args, made, lock, calls, lastRet, lastOk, prevOk, seen>>

\* getNextMill, lines 71-76: the test fails, nothing is assigned, and the
\* for loop runs its body again.
SpinLoop(p) ==
  /\ pc[p] = "spin"
  /\ ~NotAfter(mill[p], sf.LastTimeStamp)
  /\ call' = [call EXCEPT ![p].iter = 1 - @]
  /\ UNCHANGED <<args, made, sf, lock, pc, mill, view, calls, lastRet, lastOk, prevOk, seen>>

\* The return: the deferred Unlock runs and the caller has the results.
Ret(p) ==
  /\ pc[p] = "ret"
  /\ lock' = Unlocked(lock, call[p].err)
  /\ pc' = [pc EXCEPT ![p] = "idle"]
  /\ lastRet' = call[p]
  /\ IF call[p].err = NoErr
       THEN /\ lastOk' = call[p]
            /\ prevOk' = lastOk
            /\ seen' = seen \cup {call[p].id}
       ELSE UNCHANGED <<lastOk, prevOk, seen>>
  /\ mill' = [mill EXCEPT ![p] = Zero]
  /\ call' = [call EXCEPT ![p] = NoCall]
  /\ UNCHANGED <<args, made, sf, view, calls>>

Step(p) ==
  \/ Call(p)
  \/ Lock(p)
  \/ ReadClock(p)
  \/ NextMillRead(p)
  \/ SpinBreak(p)
  \/ SpinLoop(p)
  \/ Ret(p)

Next == \E p \in Procs : Step(p)

Spec == Init /\ [][Next]_vars

\* The Go scheduler runs every runnable goroutine, and sync.Mutex hands the
\* lock to a goroutine that keeps waiting for it.
LiveSpec ==
  Spec /\ \A p \in Procs : WF_vars(Step(p)) /\ SF_vars(Lock(p))

\* ------------------------------------------------------------ properties
\* A call of goroutine p is about to return an id (its record is complete).
ReturnsId(p) == pc[p] = "ret" /\ call[p].err = NoErr

\* C1: uniqueness. An id that NextId returns was not returned by an
\* earlier successful call of the same generator.
C1_Unique ==
  \A p \in Procs : ReturnsId(p) => call[p].id \notin seen

\* C2: termination. Under fair scheduling every NextId call that has started
\* eventually returns: a goroutine waiting for the lock gets it, and a
\* goroutine inside NextId or getNextMill leaves it.
C2_Returns ==
  \A p \in Procs : (pc[p] # "idle") ~> (pc[p] = "idle")

\* C3: backward-clock rejection. A call returns the clock error exactly when
\* the clock value it read at line 115 is below the LastTimeStamp it found,
\* and then the id it returns is 0; it returns no other error.
C3_ClockError ==
  \A p \in Procs : pc[p] = "ret" =>
    /\ call[p].err \in {NoErr, ErrClock}
    /\ (call[p].err = ErrClock) <=> Lt(call[p].first, call[p].lts0)
    /\ call[p].err = ErrClock => call[p].id = Zero

C3_Witness ==
  \E p \in Procs :
    /\ pc[p] = "ret" /\ call[p].err = ErrClock
    /\ Lt(call[p].first, call[p].lts0) /\ call[p].lts0 # negativeOne

\* C4: atomic generation. At most one call is between Lock and Unlock, it
\* is the holder of the lock, and Sequence and LastTimeStamp are as that call
\* last read or wrote them: no other call has changed them in between.
C4_Atomic ==
  /\ \A p, q \in Procs : pc[p] \in InCS /\ pc[q] \in InCS => p = q
  /\ \A p \in Procs : pc[p] \in InCS => lock = p /\ view[p] = sf

C4_Witness ==
  \E p, q \in Procs :
    /\ pc[p] = "spin" /\ pc[q] = "lock"
    /\ sf.Sequence # call[p].seq0

\* C5: round trip. The four Parse functions give back, from an id NextId
\* returns, the identity NewInstance was given, the offset of the
\* millisecond stored in LastTimeStamp, and the Sequence at the return.
C5_RoundTrip ==
  \A p \in Procs : ReturnsId(p) =>
    /\ ParseDataCenter(call[p].id) = args[1]
    /\ ParseMachineId(call[p].id) = args[2]
    /\ ParseDateTime(call[p].id) = Sub(call[p].lts1, start_timestamp)
    /\ ParseSequence(call[p].id) = call[p].seq1

\* The greatest ids of the layout: 2^bits - 1.
GreatestDataCenterId == Nat2W(Pow2(data_center_bit) - 1)
GreatestMachineId == Nat2W(Pow2(machine_bit) - 1)

C7_AsStated ==
  \A p \in Procs :
    (ReturnsId(p) /\ lastOk.proc # 0 /\ lastRet = lastOk
       /\ call[p].first = lastOk.first) =>
      /\ ParseSequence(call[p].id) =
           And(Add(ParseSequence(lastOk.id), One), Nat2W(Pow2(sequence_bit) - 1))
      /\ ParseDateTime(call[p].id) = ParseDateTime(lastOk.id)

\* C7, amended: the same, for two calls neither of which ran getNextMill
\* (in neither did the sequence number wrap to 0).
C7_NoWrap ==
  \A p \in Procs :
    (ReturnsId(p) /\ lastOk.proc # 0
       /\ call[p].first = lastOk.first /\ ~call[p].spun /\ ~lastOk.spun) =>
      /\ ParseSequence(call[p].id) =
           And(Add(ParseSequence(lastOk.id), One), Nat2W(Pow2(sequence_bit) - 1))
      /\ ParseDateTime(call[p].id) = ParseDateTime(lastOk.id)

C7_Witness ==
  \E p \in Procs :
    /\ ReturnsId(p) /\ lastOk.proc # 0 /\ seen # {}
    /\ call[p].first = lastOk.first /\ ~call[p].spun /\ ~lastOk.spun
    /\ ParseSequence(call[p].id) = Nat2W(Pow2(sequence_bit) - 1)

\* C8: sequence reset. A successful call that read a millisecond other than
\* the LastTimeStamp it found (-1 on the first call) returns an id whose
\* sequence number is 0.
C8_Reset ==
  \A p \in Procs :
    (ReturnsId(p) /\ call[p].first # call[p].lts0) =>
      ParseSequence(call[p].id) = Zero

C8_Witness ==
  \E p \in Procs :
    /\ ReturnsId(p) /\ call[p].first # call[p].lts0
    /\ call[p].seq0 # Zero /\ call[p].lts0 # negativeOne

\* C9: lock release. A goroutine that is not between Lock and the return
\* of NextId does not hold the lock, whether its last call returned an id or
\* the clock error; the lock is held only by a call in progress.
C9_Released ==
  /\ \A p \in Procs : pc[p] \notin InCS => lock # p
  /\ lock # 0 => pc[lock] \in InCS

C9_Witness ==
  /\ lastRet.err = ErrClock
  /\ lock # 0
  /\ pc[lastRet.proc] \notin InCS

\* C10: non-negative ids. The sign bit of an id NextId returns is 0.
C10_NonNegative ==
  \A p \in Procs : ReturnsId(p) => SignBit \notin call[p].id

\* The bit ranges of the sequence, machine, data-centre and timestamp
\* fields, as the masks and shifts of the Go and of the Java constants
\* place them.
GoFields ==
  <<max_sequence, Shl(max_machine_num, machine_left),
    Shl(max_data_center_num, data_center_left),
    Shl(max_timestamp_num, timestamp_left)>>
JavaFields ==
  <<MAX_SEQUENCE, Shl(MAX_MACHINE_NUM, MACHINE_LEFT),
    Shl(MAX_DATA_CENTER_NUM, DATA_CENTER_LEFT),
    Shl(MAX_TIMESTAMP_NUM, TIMESTAMP_LEFT)>>

\* C11: bit-width invariant. In both implementations the five widths add
\* up to 64, and the four fields are the adjacent ranges that start at bit 0,
\* at machine_left, at data_center_left and at timestamp_left and end at
\* bit 62: they do not overlap and leave only the sign bit out.
C11_Layout ==
  /\ sign_bit + timestamp_bit + data_center_bit + machine_bit + sequence_bit = 64
  /\ SIGN_BIT + TIMESTAMP_BIT + DATA_CENTER_BIT + MACHINE_BIT + SEQUENCE_BIT = 64
  /\ GoFields = <<0..(machine_left - 1), machine_left..(data_center_left - 1),
                  data_center_left..(timestamp_left - 1), timestamp_left..62>>
  /\ JavaFields = <<0..(MACHINE_LEFT - 1), MACHINE_LEFT..(DATA_CENTER_LEFT - 1),
                    DATA_CENTER_LEFT..(TIMESTAMP_LEFT - 1), TIMESTAMP_LEFT..62>>
  /\ \A i, j \in 1..4 : i # j =>
        GoFields[i] \cap GoFields[j] = {} /\ JavaFields[i] \cap JavaFields[j] = {}
  /\ UNION {GoFields[i] : i \in 1..4} = 0..62
  /\ UNION {JavaFields[i] : i \in 1..4} = 0..62
  /\ \A p \in Procs : ReturnsId(p) =>
        /\ And(call[p].id, GoFields[1]) = call[p].seq1
        /\ And(call[p].id, GoFields[2]) = Shl(args[2], machine_left)
        /\ And(call[p].id, GoFields[3]) = Shl(args[1], data_center_left)

\* An id whose sequence, machine and data-centre fields are all ones.
C11_Witness ==
  \E p \in Procs :
    /\ ReturnsId(p)
    /\ And(call[p].id, 0..(timestamp_left - 1)) = 0..(timestamp_left - 1)

\* C12: sequence-exhaustion step. A call that ran getNextMill returns an id
\* with sequence number 0 and a millisecond after the LastTimeStamp
\* that getNextMill found.
C12_NextMill ==
  \A p \in Procs :
    (ReturnsId(p) /\ call[p].spun) =>
      /\ Gt(call[p].lts1, call[p].lts0)
      /\ ParseSequence(call[p].id) = Zero

\* C13: monotone generation state. A call that returns leaves LastTimeStamp
\* no smaller than it found it, whether it returns an id or the clock error.
C13_Monotone ==
  \A p \in Procs :
    pc[p] = "ret" =>
      /\ ~Lt(call[p].lts1, call[p].lts0)
      /\ sf.LastTimeStamp = call[p].lts1

\* The greatest sequence number of the layout: 2^sequence_bit - 1.
GreatestSequence == Nat2W(Pow2(sequence_bit) - 1)

\* C14: sequence range. In every state of a generator that NewInstance
\* made, 0 <= Sequence <= 2^sequence_bit - 1.
C14_SequenceRange ==
  made.err = NoErr =>
    /\ ~Lt(sf.Sequence, Zero)
    /\ ~Gt(sf.Sequence, GreatestSequence)

C14_Witness ==
  /\ calls > 0 /\ lock = 0 /\ \A p \in Procs : pc[p] = "idle"
  /\ lastRet = lastOk
  /\ sf.Sequence = GreatestSequence

\* C15: state unchanged on clock error. A call that returns the clock error
\* leaves Sequence and LastTimeStamp as it found them, which is as the last
\* call that returned an id left them; and a call that follows an error
\* return and reads the millisecond of that last id continues its sequence.
C15_Unchanged ==
  \A p \in Procs :
    /\ (pc[p] = "ret" /\ call[p].err = ErrClock) =>
          /\ sf.Sequence = call[p].seq0 /\ sf.LastTimeStamp = call[p].lts0
          /\ lastOk.proc # 0 =>
                sf.Sequence = lastOk.seq1 /\ sf.LastTimeStamp = lastOk.lts1
    /\ (ReturnsId(p) /\ lastRet.err = ErrClock /\ lastOk.proc # 0
          /\ call[p].first = lastOk.lts1 /\ ~call[p].spun) =>
          /\ call[p].seq1 = Add(lastOk.seq1, One)
          /\ call[p].lts1 = lastOk.lts1

C15_Witness ==
  \E p \in Procs :
    /\ ReturnsId(p) /\ lastRet.err = ErrClock /\ lastOk.proc # 0
    /\ call[p].first = lastOk.lts1 /\ ~call[p].spun
    /\ lastRet.seq0 # Zero

\* C16: identity immutability. In every state of a generator that
\* NewInstance made (calls returned with an id or with the clock error, a
\* call inside getNextMill) DataCenterId and MachineId are the ids
\* NewInstance was given. The Parse functions have no receiver: they are
\* operators of the id alone.
C16_Identity ==
  made.err = NoErr =>
    /\ sf.DataCenterId = args[1] /\ sf.MachineId = args[2]
    /\ \A p \in Procs : pc[p] \in InCS =>
          view[p].DataCenterId = args[1] /\ view[p].MachineId = args[2]

C16_Witness ==
  /\ args = <<GreatestDataCenterId, GreatestMachineId>>
  /\ lastRet.err = ErrClock
  /\ \E p \in Procs : pc[p] = "spin"

\* The offset of a millisecond from the epoch is in 0 .. 2^timestamp_bit - 1.
OffsetFits(ms) ==
  /\ ~Lt(Sub(ms, start_timestamp), Zero)
  /\ Lt(Sub(ms, start_timestamp), Shl(One, timestamp_bit))

\* C17: strictly increasing ids. An id that NextId returns is greater, as a
\* signed integer, than the id of the successful call before it in lock
\* order, when the milliseconds of both ids have offsets that fit the
\* timestamp field.
C17_Increasing ==
  \A p \in Procs :
    (ReturnsId(p) /\ lastOk.proc # 0
       /\ OffsetFits(lastOk.lts1) /\ OffsetFits(call[p].lts1)) =>
      Lt(lastOk.id, call[p].id)

\* Identities of a second generator, the sequence numbers it may hold, and
\* the ids its NextId may return (line 136) on any clock reading: each
\* with the identity it belongs to.
OtherIdentities ==
  {<<Zero, Zero>>, <<Zero, One>>, <<One, Zero>>,
   <<GreatestDataCenterId, GreatestMachineId>>}
OtherSequences == {Zero, One, GreatestSequence}
OtherIds ==
  {<<o, Compose(t, o[1], o[2], s)>> :
     o \in OtherIdentities, t \in ClockValues, s \in OtherSequences}

\* C18: cross-instance uniqueness. An id that the generator returns,
\* whatever its clock reads, is not an id that a generator with another
\* identity returns.
C18_CrossInstance ==
  \A p \in Procs :
    ReturnsId(p) =>
      \A o \in OtherIdentities \ {args} : <<o, call[p].id>> \notin OtherIds

\* An id of a millisecond before the epoch: every bit of its timestamp
\* offset is set.
C18_Witness ==
  \E p \in Procs :
    /\ ReturnsId(p) /\ Lt(call[p].id, Zero)
    /\ call[p].seq1 = One
====
